---- MODULE Spec2Model ----
(***************************************************************************)
(* Barcode resolution and catalog merge of the Midlands price checker      *)
(* backend: the products / barcode_overrides / barcode_aliases tables      *)
(* (db.py), the two-report CSV import (import_csv.py), the search resolver *)
(* and the admin barcode override endpoints (app.py).                      *)
(*                                                                         *)
(* Strings are sequences of one-character strings, so that stripping,      *)
(* digit filtering and comparison are computed as the code computes them.  *)
(* SQL NULL / Python None is the one-element tuple NULL.  The updated_at   *)
(* columns are left out: no modelled decision reads them.                  *)
(***************************************************************************)
EXTENDS Integers, Sequences, FiniteSets, TLC

(* ----------------------------- bounds ---------------------------------- *)
MaxRows == 1        \* rows per uploaded report
MaxLimit == 2       \* largest LIMIT tried by a search request

(* ----------------------------- strings --------------------------------- *)
NULL == <<"NULL">>
HTTP400 == <<"HTTP400">>

Digits == {"0", "1", "2", "3", "4", "5", "6", "7", "8", "9"}
NBSP == "nbsp"
White == {" ", NBSP}

IsDigitChar(c) == c \in Digits
IsNotCaret(c) == c # "^"
IsNotSpace(c) == c # " "

RECURSIVE LStrip(_)
LStrip(s) == IF s # <<>> /\ Head(s) \in White THEN LStrip(Tail(s)) ELSE s

RECURSIVE RStrip(_)
RStrip(s) ==
    IF s # <<>> /\ s[Len(s)] \in White THEN RStrip(SubSeq(s, 1, Len(s) - 1)) ELSE s

\* str.strip()
Strip(s) == RStrip(LStrip(s))

\* str.isdigit()
IsDigit(s) == s # <<>> /\ \A i \in 1..Len(s) : s[i] \in Digits

\* re.sub(r"\D+", "", s)
DigitsOf(s) == SelectSeq(s, IsDigitChar)

AllZero(s) == \A i \in 1..Len(s) : s[i] = "0"

\* str.lower() / LOWER() on ASCII letters
UpperLetters ==
    <<"A", "B", "C", "D", "E", "F", "G", "H", "I", "J", "K", "L", "M",
      "N", "O", "P", "Q", "R", "S", "T", "U", "V", "W", "X", "Y", "Z">>
LowerLetters ==
    <<"a", "b", "c", "d", "e", "f", "g", "h", "i", "j", "k", "l", "m",
      "n", "o", "p", "q", "r", "s", "t", "u", "v", "w", "x", "y", "z">>
LowerMap ==
    [c \in {UpperLetters[i] : i \in 1..26} |->
        LowerLetters[CHOOSE i \in 1..26 : UpperLetters[i] = c]]
LowerChar(c) == IF c \in DOMAIN LowerMap THEN LowerMap[c] ELSE c
RECURSIVE Lower(_)
Lower(s) == IF s = <<>> THEN <<>> ELSE <<LowerChar(Head(s))>> \o Lower(Tail(s))

\* needle is a contiguous substring of s (LIKE '%needle%', Python "in")
Contains(s, needle) ==
    \E i \in 1..(Len(s) + 1) :
        /\ i + Len(needle) - 1 <= Len(s)
        /\ SubSeq(s, i, i + Len(needle) - 1) = needle

\* import_csv._norm: str(s or "").replace("\xa0", " ").strip()
RECURSIVE ReplaceNbsp(_)
ReplaceNbsp(s) ==
    IF s = <<>> THEN <<>>
    ELSE <<IF Head(s) = NBSP THEN " " ELSE Head(s)>> \o ReplaceNbsp(Tail(s))

Norm(s) == IF s = NULL THEN <<>> ELSE Strip(ReplaceNbsp(s))

\* leading zeros dropped, as a conversion through int would do
RECURSIVE DropLeadingZeros(_)
DropLeadingZeros(s) ==
    IF s # <<>> /\ Head(s) = "0" THEN DropLeadingZeros(Tail(s)) ELSE s

CleanBarcodeCsvAsNumber(raw) ==
    LET digits == DropLeadingZeros(DigitsOf(Norm(raw)))
    IN  IF digits = <<>> THEN NULL ELSE digits

\* the all-zero test left out
CleanBarcodeCsvKeepZeros(raw) ==
    LET s == Norm(raw)
        digits == DigitsOf(SelectSeq(s, IsNotCaret))
    IN  IF s = <<>> THEN NULL
        ELSE IF digits = <<>> THEN NULL
        ELSE digits

\* import_csv._clean_barcode: digits only, None if unusable
CleanBarcodeCsv(raw) ==
    LET s == Norm(raw)
        digits == DigitsOf(SelectSeq(s, IsNotCaret))
    IN  IF s = <<>> THEN NULL
        ELSE IF digits = <<>> THEN NULL
        ELSE IF AllZero(digits) THEN NULL
        ELSE digits

\* app._clean_barcode: digits only, HTTP 400 if unusable
CleanBarcodeApp(raw) ==
    LET s == Strip(IF raw = NULL THEN <<>> ELSE raw)
        digits == DigitsOf(SelectSeq(s, IsNotCaret))
    IN  IF digits = <<>> \/ AllZero(digits) THEN HTTP400 ELSE digits

\* Python truthiness of an Optional[str]
Truthy(s) == s # NULL /\ s # <<>>

(* ----------------------------- constants of the code ------------------- *)
S_999998 == <<"9", "9", "9", "9", "9", "8">>
S_999999 == <<"9", "9", "9", "9", "9", "9">>
S_LineGroup == <<"l", "i", "n", "e", " ", "g", "r", "o", "u", "p">>
S_HandlingCharge ==
    <<"h", "a", "n", "d", "l", "i", "n", "g", " ", "c", "h", "a", "r", "g", "e">>
S_UnknownProduct ==
    <<"U", "n", "k", "n", "o", "w", "n", " ", "p", "r", "o", "d", "u", "c", "t">>

(* ----------------------------- tables ---------------------------------- *)
\* A table is the set of its rows; the PRIMARY KEY is kept by the upserts.
ProductRow(code, desc, price, mpc, bc) ==
    [product_code |-> code, full_description |-> desc, retail_price |-> price,
     manufacturers_product_code |-> mpc, barcode |-> bc]
OverrideRow(code, bc) == [product_code |-> code, barcode |-> bc]
AliasRow(bc, code) == [barcode |-> bc, product_code |-> code]

\* SELECT ... FROM products WHERE product_code = ?
ProductsByCode(prod, code) == {r \in prod : r.product_code = code}
\* SELECT barcode FROM barcode_overrides WHERE product_code = ?
OverridesByCode(ov, code) == {r \in ov : r.product_code = code}
\* SELECT product_code FROM barcode_aliases WHERE barcode = ?
AliasesByBarcode(al, bc) == {r \in al : r.barcode = bc}

\* INSERT INTO barcode_overrides ... ON CONFLICT(product_code) DO UPDATE
UpsertOverride(ov, code, bc) ==
    {r \in ov : r.product_code # code} \cup {OverrideRow(code, bc)}

\* INSERT INTO barcode_aliases ... ON CONFLICT(barcode) DO UPDATE
UpsertAlias(al, bc, code) ==
    {r \in al : r.barcode # bc} \cup {AliasRow(bc, code)}

\* UPDATE products SET barcode = ? WHERE product_code = ?
UpdateProductBarcode(prod, code, bc) ==
    {IF r.product_code = code THEN [r EXCEPT !.barcode = bc] ELSE r : r \in prod}

\* DELETE FROM barcode_overrides WHERE product_code = ?
DeleteOverride(ov, code) == {r \in ov : r.product_code # code}
\* DELETE FROM barcode_aliases WHERE barcode = ?
DeleteAlias(al, bc) == {r \in al : r.barcode # bc}

(* ----------------------------- catalog import -------------------------- *)
\* A CSV row after header detection; retail_price is the value _to_float
\* yields, the other fields are the raw cell texts.
CsvRow(code, desc, price, mpc, bc) ==
    [product_code |-> code, full_description |-> desc, retail_price |-> price,
     manufacturers_product_code |-> mpc, barcode |-> bc]

\* import_products_two_reports.to_records, one row
ToRecord(r, has_barcode) ==
    [product_code |-> Norm(r.product_code),
     full_description |-> Norm(r.full_description),
     retail_price |-> r.retail_price,
     manufacturers_product_code |->
        LET m == Norm(r.manufacturers_product_code) IN IF m = <<>> THEN NULL ELSE m,
     barcode |-> IF has_barcode THEN CleanBarcodeCsv(r.barcode) ELSE NULL]

RECURSIVE ToRecords(_, _)
ToRecords(rows, has_barcode) ==
    IF rows = <<>> THEN <<>>
    ELSE <<ToRecord(Head(rows), has_barcode)>> \o ToRecords(Tail(rows), has_barcode)

\* the markers compared without lower()
IsNonProductCaseSensitive(code, desc) ==
    \/ code \in {S_999998, S_999999}
    \/ Contains(desc, S_LineGroup)
    \/ Contains(desc, S_HandlingCharge)

\* the "skip obvious non-product rows" test of _upsert_products
IsNonProduct(code, desc) ==
    LET low == Lower(desc)
    IN  \/ code \in {S_999998, S_999999}
        \/ Contains(low, S_LineGroup)
        \/ Contains(low, S_HandlingCharge)

\* prefer_barcode overwrites also with an absent barcode
MergedBarcodeOverwrite(existing_barcode, bc, prefer_barcode) ==
    IF prefer_barcode THEN bc
    ELSE IF Truthy(bc) /\ ~Truthy(existing_barcode) THEN bc ELSE existing_barcode

\* a barcode is only filled in where none is stored, whatever the report
MergedBarcodeFillOnly(existing_barcode, bc, prefer_barcode) ==
    IF Truthy(bc) /\ ~Truthy(existing_barcode) THEN bc ELSE existing_barcode

\* the barcode written by the UPDATE branch of _upsert_products
MergedBarcode(existing_barcode, bc, prefer_barcode) ==
    IF Truthy(bc)
    THEN IF prefer_barcode THEN bc
         ELSE IF ~Truthy(existing_barcode) THEN bc ELSE existing_barcode
    ELSE existing_barcode

\* the barcode written by the INSERT branch of _upsert_products
InsertedBarcode(bc, prefer_barcode) ==
    IF prefer_barcode THEN bc ELSE IF Truthy(bc) THEN bc ELSE NULL

\* the description _upsert_products stores
RecordDesc(rec) ==
    IF Norm(rec.full_description) = <<>> THEN S_UnknownProduct
    ELSE Norm(rec.full_description)

\* the two "continue" tests of the loop of _upsert_products
IsSkipped(rec) ==
    \/ Norm(rec.product_code) = <<>>
    \/ IsNonProduct(Norm(rec.product_code), RecordDesc(rec))

\* one iteration of the loop of _upsert_products: the table after it
UpsertRecord(prod, rec, prefer_barcode) ==
    LET code == Norm(rec.product_code)
        d == Norm(rec.full_description)
        desc == IF d = <<>> THEN S_UnknownProduct ELSE d
        m == Norm(rec.manufacturers_product_code)
        mpc == IF m = <<>> THEN NULL ELSE m
        existing == ProductsByCode(prod, code)
    IN  IF code = <<>> THEN prod
        ELSE IF IsNonProduct(code, desc) THEN prod
        ELSE IF existing # {}
        THEN (prod \ existing) \cup
             {ProductRow(code, desc, rec.retail_price, mpc,
                         MergedBarcode((CHOOSE r \in existing : TRUE).barcode,
                                       rec.barcode, prefer_barcode))}
        ELSE prod \cup
             {ProductRow(code, desc, rec.retail_price, mpc,
                         InsertedBarcode(rec.barcode, prefer_barcode))}

\* "break" instead of "continue" on a record without product code
RECURSIVE UpsertProductsBreak(_, _, _)
UpsertProductsBreak(prod, records, prefer_barcode) ==
    IF records = <<>> THEN prod
    ELSE IF Norm(Head(records).product_code) = <<>> THEN prod
    ELSE UpsertProductsBreak(UpsertRecord(prod, Head(records), prefer_barcode),
                             Tail(records), prefer_barcode)

\* _upsert_products: the table it commits
RECURSIVE UpsertProducts(_, _, _)
UpsertProducts(prod, records, prefer_barcode) ==
    IF records = <<>> THEN prod
    ELSE UpsertProducts(UpsertRecord(prod, Head(records), prefer_barcode),
                        Tail(records), prefer_barcode)

\* the count _upsert_products returns: both branches add one to changed
Changed(records) == Cardinality({i \in 1..Len(records) : ~IsSkipped(records[i])})

\* the product codes _upsert_products writes
WrittenCodes(records) ==
    {Norm(records[i].product_code) : i \in {j \in 1..Len(records) : ~IsSkipped(records[j])}}

\* import_products_two_reports: the catalog after both upserts
ImportProductsTwoReports(prod, rows_a, rows_b) ==
    UpsertProducts(UpsertProducts(prod, ToRecords(rows_a, TRUE), TRUE),
                   ToRecords(rows_b, FALSE), FALSE)

\* import_products_two_reports: the summary it returns
ImportSummary(rows_a, rows_b) ==
    [imported_with_barcodes |-> Changed(ToRecords(rows_a, TRUE)),
     imported_without_barcodes |-> Changed(ToRecords(rows_b, FALSE)),
     total_changed |-> Changed(ToRecords(rows_a, TRUE)) + Changed(ToRecords(rows_b, FALSE))]

(* ----------------------------- override manager ------------------------ *)
\* the 409 test left out
AliasConflictNever(al, bc, code) == FALSE

\* the 409 test without the comparison of the product code
AliasConflictAnyOwner(al, bc, code) == AliasesByBarcode(al, bc) # {}

\* "row and row['product_code'] != code" of set_product_barcode
AliasConflict(al, bc, code) ==
    \E r \in AliasesByBarcode(al, bc) : r.product_code # code

\* "if arow:" without the comparison of the product code
AliasPointsToAny(al, bc, code) == AliasesByBarcode(al, bc) # {}

\* "arow and arow['product_code'] == code" of clear_product_barcode_override
AliasPointsTo(al, bc, code) ==
    \E r \in AliasesByBarcode(al, bc) : r.product_code = code

\* the alias upsert left out
SetWritesNoAlias(prod, ov, al, code, new_bc, also_update_products_table) ==
    [products |-> IF also_update_products_table
                  THEN UpdateProductBarcode(prod, code, new_bc) ELSE prod,
     overrides |-> UpsertOverride(ov, code, new_bc),
     aliases |-> al]

\* the three writes of set_product_barcode, in the order of the code
SetWrites(prod, ov, al, code, new_bc, also_update_products_table) ==
    [products |-> IF also_update_products_table
                  THEN UpdateProductBarcode(prod, code, new_bc) ELSE prod,
     overrides |-> UpsertOverride(ov, code, new_bc),
     aliases |-> UpsertAlias(al, new_bc, code)]

\* the product looked up before the barcode is cleaned
SetProductBarcodeLateClean(prod, ov, al, product_code, raw, also_update_products_table) ==
    LET code == Strip(product_code)
        new_bc == CleanBarcodeApp(raw)
        same == [products |-> prod, overrides |-> ov, aliases |-> al]
    IN  IF code = <<>>
        THEN [status |-> "ProductCodeRequired", db |-> same]
        ELSE IF ProductsByCode(prod, code) = {}
        THEN [status |-> "ProductNotFound", db |-> same]
        ELSE IF new_bc = HTTP400
        THEN [status |-> "InvalidBarcode", db |-> same]
        ELSE IF AliasConflict(al, new_bc, code)
        THEN [status |-> "BarcodeConflict", db |-> same]
        ELSE [status |-> "ok",
              db |-> SetWrites(prod, ov, al, code, new_bc,
                               also_update_products_table)]

\* the 404 test left out
SetProductBarcodeNoExistsCheck(prod, ov, al, product_code, raw, also_update_products_table) ==
    LET code == Strip(product_code)
        new_bc == CleanBarcodeApp(raw)
        same == [products |-> prod, overrides |-> ov, aliases |-> al]
    IN  IF code = <<>>
        THEN [status |-> "ProductCodeRequired", db |-> same]
        ELSE IF new_bc = HTTP400
        THEN [status |-> "InvalidBarcode", db |-> same]
        ELSE IF AliasConflict(al, new_bc, code)
        THEN [status |-> "BarcodeConflict", db |-> same]
        ELSE [status |-> "ok",
              db |-> SetWrites(prod, ov, al, code, new_bc,
                               also_update_products_table)]

\* set_product_barcode, run to its return or its HTTPException
SetProductBarcode(prod, ov, al, product_code, raw, also_update_products_table) ==
    LET code == Strip(product_code)
        new_bc == CleanBarcodeApp(raw)
        same == [products |-> prod, overrides |-> ov, aliases |-> al]
    IN  IF code = <<>>
        THEN [status |-> "ProductCodeRequired", db |-> same]
        ELSE IF new_bc = HTTP400
        THEN [status |-> "InvalidBarcode", db |-> same]
        ELSE IF ProductsByCode(prod, code) = {}
        THEN [status |-> "ProductNotFound", db |-> same]
        ELSE IF AliasConflict(al, new_bc, code)
        THEN [status |-> "BarcodeConflict", db |-> same]
        ELSE [status |-> "ok",
              db |-> SetWrites(prod, ov, al, code, new_bc,
                               also_update_products_table)]

\* the barcode read back by clear_product_barcode_override:
\* (row["barcode"] or "").strip()
ClearBarcode(row) == IF row.barcode = NULL THEN <<>> ELSE Strip(row.barcode)

\* the two deletes of clear_product_barcode_override
ClearWrites(ov, al, code, bc) ==
    [overrides |-> DeleteOverride(ov, code),
     aliases |-> IF bc # <<>> /\ AliasPointsTo(al, bc, code)
                 THEN DeleteAlias(al, bc) ELSE al]

\* a clear that, finding no override, sweeps the aliases left for the product
ClearProductBarcodeOverrideSweep(ov, al, product_code) ==
    LET code == Strip(product_code)
        rows == OverridesByCode(ov, code)
    IN  IF code = <<>>
        THEN [status |-> "ProductCodeRequired", deleted |-> FALSE,
              db |-> [overrides |-> ov, aliases |-> al]]
        ELSE IF rows = {}
        THEN [status |-> "ok", deleted |-> FALSE,
              db |-> [overrides |-> ov,
                      aliases |-> {a \in al : a.product_code # code}]]
        ELSE [status |-> "ok", deleted |-> TRUE,
              db |-> ClearWrites(ov, al, code,
                                 ClearBarcode(CHOOSE r \in rows : TRUE))]

\* clear_product_barcode_override, run to its return or its HTTPException
ClearProductBarcodeOverride(ov, al, product_code) ==
    LET code == Strip(product_code)
        rows == OverridesByCode(ov, code)
        same == [overrides |-> ov, aliases |-> al]
    IN  IF code = <<>>
        THEN [status |-> "ProductCodeRequired", deleted |-> FALSE, db |-> same]
        ELSE IF rows = {}
        THEN [status |-> "ok", deleted |-> FALSE, db |-> same]
        ELSE [status |-> "ok", deleted |-> TRUE,
              db |-> ClearWrites(ov, al, code,
                                 ClearBarcode(CHOOSE r \in rows : TRUE))]

(* ----------------------------- resolver -------------------------------- *)
\* byte order of the characters used (ORDER BY uses the BINARY collation)
Ascii ==
    <<" ", "0", "1", "2", "3", "4", "5", "6", "7", "8", "9">> \o
    UpperLetters \o <<"^">> \o LowerLetters \o <<NBSP>>
CharOrd(c) == CHOOSE i \in 1..Len(Ascii) : Ascii[i] = c

RECURSIVE StrLeq(_, _)
StrLeq(a, b) ==
    IF a = <<>> THEN TRUE
    ELSE IF b = <<>> THEN FALSE
    ELSE IF Head(a) = Head(b) THEN StrLeq(Tail(a), Tail(b))
    ELSE CharOrd(Head(a)) < CharOrd(Head(b))

\* a row of "SELECT p.*, <expr> AS effective_barcode"
SqlRow(p, eff) ==
    [product_code |-> p.product_code, full_description |-> p.full_description,
     retail_price |-> p.retail_price,
     manufacturers_product_code |-> p.manufacturers_product_code,
     barcode |-> p.barcode, effective_barcode |-> eff]

Coalesce(a, b) == IF a # NULL THEN a ELSE b

\* products p LEFT JOIN barcode_overrides o ON o.product_code = p.product_code,
\* with COALESCE(o.barcode, p.barcode) AS effective_barcode
LeftJoinOverride(p, ov) ==
    IF OverridesByCode(ov, p.product_code) = {}
    THEN {SqlRow(p, p.barcode)}
    ELSE {SqlRow(p, Coalesce(o.barcode, p.barcode)) :
            o \in OverridesByCode(ov, p.product_code)}

\* x = ? OR x LIKE '%?%' on a nullable column
EqOrLike(x, q) == x # NULL /\ (x = q \/ Contains(Lower(x), Lower(q)))

\* smart 1) barcode_aliases
SelAlias(prod, ov, al, q) ==
    UNION {LeftJoinOverride(p, ov) :
            p \in {x \in prod : \E a \in al :
                        a.barcode = q /\ a.product_code = x.product_code}}
\* smart 2) barcode_overrides exact: o.barcode AS effective_barcode
SelOverride(prod, ov, q) ==
    {SqlRow(p, o.barcode) :
        <<p, o>> \in {y \in prod \X ov :
                        y[2].barcode = q /\ y[1].product_code = y[2].product_code}}
\* smart 3) products.barcode exact
SelCatalogBarcode(prod, ov, q) ==
    UNION {LeftJoinOverride(p, ov) : p \in {x \in prod : x.barcode = q}}
\* smart 4) product_code exact
SelProductCode(prod, ov, q) ==
    UNION {LeftJoinOverride(p, ov) : p \in {x \in prod : x.product_code = q}}
\* smart 5) and mode "name": LOWER(full_description) LIKE LOWER('%q%')
SelName(prod, ov, q) ==
    UNION {LeftJoinOverride(p, ov) :
            p \in {x \in prod : Contains(Lower(x.full_description), Lower(q))}}
\* mode "code"
SelCode(prod, ov, q) ==
    UNION {LeftJoinOverride(p, ov) :
            p \in {x \in prod :
                      \/ EqOrLike(x.product_code, q)
                      \/ EqOrLike(x.manufacturers_product_code, q)}}
\* mode "barcode", first query: products.barcode = ? OR LIKE
SelBarcodeCatalog(prod, ov, q) ==
    UNION {LeftJoinOverride(p, ov) : p \in {x \in prod : EqOrLike(x.barcode, q)}}
\* mode "barcode", second query: barcode_overrides
SelBarcodeOverride(prod, ov, q) ==
    {SqlRow(p, Coalesce(o.barcode, p.barcode)) :
        <<p, o>> \in {y \in prod \X ov :
                        /\ EqOrLike(y[2].barcode, q)
                        /\ y[1].product_code = y[2].product_code}}
\* mode "barcode", third query: barcode_aliases
SelBarcodeAlias(prod, ov, al, q) ==
    UNION {LeftJoinOverride(p, ov) :
            p \in {x \in prod : \E a \in al :
                        EqOrLike(a.barcode, q) /\ a.product_code = x.product_code}}

Sel(step, rows, ordered) == [step |-> step, rows |-> rows, ordered |-> ordered]

\* what _search_products_internal makes of the incoming q before it is
\* compared with barcodes: q.strip(), then q.replace(" ", "")
QueryCompact(q0) == SelectSeq(Strip(q0), IsNotSpace)

\* the "smart" branch: the query whose rows are handed to _rows_to_products
SmartSelect(prod, ov, al, q) ==
    LET q_compact == SelectSeq(q, IsNotSpace)
    IN  IF IsDigit(q_compact) /\ SelAlias(prod, ov, al, q_compact) # {}
        THEN Sel("alias", SelAlias(prod, ov, al, q_compact), FALSE)
        ELSE IF IsDigit(q_compact) /\ SelOverride(prod, ov, q_compact) # {}
        THEN Sel("override", SelOverride(prod, ov, q_compact), FALSE)
        ELSE IF IsDigit(q_compact) /\ SelCatalogBarcode(prod, ov, q_compact) # {}
        THEN Sel("catalog_barcode", SelCatalogBarcode(prod, ov, q_compact), FALSE)
        ELSE IF IsDigit(q_compact) /\ SelProductCode(prod, ov, q_compact) # {}
        THEN Sel("product_code", SelProductCode(prod, ov, q_compact), FALSE)
        ELSE Sel("name", SelName(prod, ov, q), TRUE)

\* the "barcode" branch
BarcodeSelect(prod, ov, al, q) ==
    LET q_compact == SelectSeq(q, IsNotSpace)
    IN  IF SelBarcodeCatalog(prod, ov, q_compact) # {}
        THEN Sel("catalog_barcode", SelBarcodeCatalog(prod, ov, q_compact), FALSE)
        ELSE IF SelBarcodeOverride(prod, ov, q_compact) # {}
        THEN Sel("override", SelBarcodeOverride(prod, ov, q_compact), FALSE)
        ELSE Sel("alias", SelBarcodeAlias(prod, ov, al, q_compact), FALSE)

\* _search_products_internal up to the call of _rows_to_products;
\* step "empty" is the early return on an empty query
SearchSelect(prod, ov, al, q0, mode0) ==
    LET q == Strip(q0)
        mode == Strip(mode0)
    IN  IF q = <<>> THEN Sel("empty", {}, FALSE)
        ELSE IF mode = <<"n", "a", "m", "e">> THEN Sel("name", SelName(prod, ov, q), TRUE)
        ELSE IF mode = <<"c", "o", "d", "e">> THEN Sel("code", SelCode(prod, ov, q), TRUE)
        ELSE IF mode = <<"b", "a", "r", "c", "o", "d", "e">>
        THEN BarcodeSelect(prod, ov, al, q)
        ELSE SmartSelect(prod, ov, al, q)

Min(a, b) == IF a < b THEN a ELSE b

\* the lists cur.fetchall() can yield for a query with LIMIT ?: without
\* ORDER BY any order of any |limit| rows, with ORDER BY p.full_description
\* the first rows in ascending order (ties in any order)
FetchAll(rows, ordered, limit) ==
    LET k == Min(limit, Cardinality(rows))
    IN  {f \in [1..k -> rows] :
            /\ \A i, j \in 1..k : i # j => f[i] # f[j]
            /\ ordered =>
                /\ \A i, j \in 1..k :
                      i < j => StrLeq(f[i].full_description, f[j].full_description)
                /\ \A r \in rows : \A i \in 1..k :
                      (\A j \in 1..k : f[j] # r) =>
                          StrLeq(f[i].full_description, r.full_description)}

\* _rows_to_products: get_conn sets row_factory = sqlite3.Row (db.py), and a
\* sqlite3.Row has no method get, so r.get("manufacturers_product_code")
\* raises AttributeError on the first row; only the empty list converts.
RowsToProducts(rows) ==
    IF rows = <<>> THEN [status |-> "ok", products |-> <<>>]
    ELSE [status |-> "AttributeError", products |-> <<>>]

\* _search_products_internal: every response it can give
SearchProductsInternal(prod, ov, al, q, mode, limit) ==
    {RowsToProducts(f) :
        f \in UNION {FetchAll(sel.rows, sel.ordered, limit) :
                        sel \in {SearchSelect(prod, ov, al, q, mode)}}}

(* ----------------------------- inputs ---------------------------------- *)
P1 == <<"1">>
P2 == <<"2">>
P3 == <<"3">>
DescA == <<"A", "b">>
DescB == <<"b">>

\* rows of the report with barcodes
RowsA ==
    {CsvRow(P1, DescA, 1, <<>>, <<"1">>),
     CsvRow(P1, DescA, 1, <<>>, <<"0">>),
     CsvRow(P2, DescB, 1, <<>>, <<"^", "2">>),
     CsvRow(S_999999, DescB, 1, <<>>, <<"1">>)}

\* rows of the report without barcodes (its barcode column is not read)
RowsB ==
    {CsvRow(P1, DescA, 2, <<>>, <<>>), CsvRow(P2, DescB, 1, <<>>, <<>>)}

SeqsUpTo(S, n) == UNION {[1..k -> S] : k \in 0..n}

CodeArgs == {P1, P2, P3}
RawBarcodes == {<<"1">>, <<"^", "2">>, <<"0">>}
Queries == {<<"1">>, <<"2">>, <<"b">>}
M_smart == <<"s", "m", "a", "r", "t">>
M_name == <<"n", "a", "m", "e">>
M_code == <<"c", "o", "d", "e">>
M_barcode == <<"b", "a", "r", "c", "o", "d", "e">>
Modes == {M_smart, M_name, M_code, M_barcode}

(* ----------------------------- state ----------------------------------- *)
VARIABLES
    products,   \* committed rows of table products
    overrides,  \* committed rows of table barcode_overrides
    aliases,    \* committed rows of table barcode_aliases
    last,       \* the request that completed last: endpoint and outcome
    req,        \* per worker thread: the request it is serving, and where
    tx          \* the open write transaction (SQLite has one writer at a time)

vars == <<products, overrides, aliases, last, req, tx>>

Procs == {1, 2}

NoTx == [owner |-> 0, products |-> {}, overrides |-> {}, aliases |-> {}]
IdleReq ==
    [op |-> "none", pc |-> "idle", code |-> <<>>, bc |-> <<>>, flag |-> FALSE]

\* step: the query of _search_products_internal that produced the rows
Last(op, status, step, deleted) ==
    [op |-> op, status |-> status, step |-> step, deleted |-> deleted]

\* init_db: the three tables are created empty
Init ==
    /\ products = {}
    /\ overrides = {}
    /\ aliases = {}
    /\ last = Last("init", "", "", FALSE)
    /\ req = [p \in Procs |-> IdleReq]
    /\ tx = NoTx

(* ----------------------------- requests, one at a time ----------------- *)
\* POST /admin/products/{product_code}/barcode
SetOverride(product_code, raw, flag) ==
    \E r \in {SetProductBarcode(products, overrides, aliases, product_code, raw, flag)} :
        /\ products' = r.db.products
        /\ overrides' = r.db.overrides
        /\ aliases' = r.db.aliases
        /\ last' = Last("set", r.status, "", FALSE)
        /\ UNCHANGED <<req, tx>>

\* DELETE /admin/products/{product_code}/barcode
ClearOverride(product_code) ==
    \E r \in {ClearProductBarcodeOverride(overrides, aliases, product_code)} :
        /\ overrides' = r.db.overrides
        /\ aliases' = r.db.aliases
        /\ last' = Last("clear", r.status, "", r.deleted)
        /\ UNCHANGED <<products, req, tx>>

\* an import that also drops the overrides of the products it writes
ImportDropsOverrides(rows_a, rows_b) ==
    /\ products' = ImportProductsTwoReports(products, rows_a, rows_b)
    /\ overrides' = {o \in overrides :
                        o.product_code \notin WrittenCodes(ToRecords(rows_a, TRUE))}
    /\ last' = Last("import", "ok", "", FALSE)
    /\ UNCHANGED <<aliases, req, tx>>

\* POST /admin/upload_reports
Import(rows_a, rows_b) ==
    /\ products' = ImportProductsTwoReports(products, rows_a, rows_b)
    /\ last' = Last("import", "ok", "", FALSE)
    /\ UNCHANGED <<overrides, aliases, req, tx>>

\* GET /products/search
Resolve(q, mode, limit) ==
    \E sel \in {SearchSelect(products, overrides, aliases, q, mode)} :
        \E f \in FetchAll(sel.rows, sel.ordered, limit) :
            /\ last' = Last("resolve", RowsToProducts(f).status, sel.step, FALSE)
            /\ UNCHANGED <<products, overrides, aliases, req, tx>>

Next ==
    \/ \E c \in CodeArgs, b \in RawBarcodes, f \in BOOLEAN : SetOverride(c, b, f)
    \/ \E c \in CodeArgs : ClearOverride(c)
    \/ \E a \in SeqsUpTo(RowsA, MaxRows), b \in SeqsUpTo(RowsB, MaxRows) : Import(a, b)
    \/ \E q \in Queries, m \in Modes, n \in 1..MaxLimit : Resolve(q, m, n)

Spec == Init /\ [][Next]_vars

(* ----------------------------- requests, statement by statement -------- *)
\* Each request runs in a worker thread on its own connection (get_conn).
\* sqlite3 runs a SELECT outside any transaction and opens one before the
\* first INSERT/UPDATE/DELETE; conn.commit() publishes the writes, and
\* conn.close() without commit drops them.  A second writer waits for the lock.
ConcCodes == {P1, P2}
ConcRaws == {<<"^", "2">>}

\* a catalog as an import leaves it
ConcCatalog ==
    ImportProductsTwoReports({},
        <<CsvRow(P1, DescA, 1, <<>>, <<"0">>), CsvRow(P2, DescB, 1, <<>>, <<"^", "2">>)>>,
        <<>>)

InitConc ==
    /\ products = ConcCatalog
    /\ overrides = {}
    /\ aliases = {}
    /\ last = Last("import", "ok", "", FALSE)
    /\ req = [p \in Procs |-> IdleReq]
    /\ tx = NoTx

\* the request leaves get_conn() behind with its locals code, bc (new_bc or
\* the override barcode read back) and flag (also_update_products_table)
Begin(p, op, code, bc, flag, pc) ==
    req' = [req EXCEPT ![p] = [op |-> op, pc |-> pc, code |-> code, bc |-> bc,
                               flag |-> flag]]
Goto(p, pc) == req' = [req EXCEPT ![p].pc = pc]
\* the response is sent and the thread is free again
Finish(p, status, deleted) ==
    /\ req' = [req EXCEPT ![p] = IdleReq]
    /\ last' = Last(req[p].op, status, "", deleted)
\* a request refused before get_conn()
Refuse(op, status) ==
    /\ last' = Last(op, status, "", FALSE)
    /\ UNCHANGED req

\* set_product_barcode up to get_conn(): strip the code, clean the barcode
SetStart(p, product_code, raw, flag) ==
    /\ req[p].pc = "idle"
    /\ \E code \in {Strip(product_code)}, new_bc \in {CleanBarcodeApp(raw)} :
         IF code = <<>> THEN Refuse("set", "ProductCodeRequired")
         ELSE IF new_bc = HTTP400 THEN Refuse("set", "InvalidBarcode")
         ELSE /\ Begin(p, "set", code, new_bc, flag, "set_select_product")
              /\ UNCHANGED last
    /\ UNCHANGED <<products, overrides, aliases, tx>>

\* SELECT product_code FROM products: "must exist"
SetSelectProduct(p) ==
    /\ req[p].pc = "set_select_product"
    /\ IF ProductsByCode(products, req[p].code) = {}
       THEN Finish(p, "ProductNotFound", FALSE)
       ELSE Goto(p, "set_select_alias") /\ UNCHANGED last
    /\ UNCHANGED <<products, overrides, aliases, tx>>

\* SELECT product_code FROM barcode_aliases, and the 409 test
SetSelectAlias(p) ==
    /\ req[p].pc = "set_select_alias"
    /\ IF AliasConflict(aliases, req[p].bc, req[p].code)
       THEN Finish(p, "BarcodeConflict", FALSE)
       ELSE Goto(p, "set_insert_override") /\ UNCHANGED last
    /\ UNCHANGED <<products, overrides, aliases, tx>>

\* the override upsert committed on its own (autocommit connection)
SetInsertOverrideAutocommit(p) ==
    /\ req[p].pc = "set_insert_override"
    /\ tx.owner = 0
    /\ overrides' = UpsertOverride(overrides, req[p].code, req[p].bc)
    /\ tx' = [owner |-> p, products |-> products, overrides |-> overrides',
              aliases |-> aliases]
    /\ Goto(p, "set_insert_alias")
    /\ UNCHANGED <<products, aliases, last>>

\* 1) upsert override: the first write opens the transaction
SetInsertOverride(p) ==
    /\ req[p].pc = "set_insert_override"
    /\ tx.owner = 0
    /\ tx' = [owner |-> p, products |-> products,
              overrides |-> UpsertOverride(overrides, req[p].code, req[p].bc),
              aliases |-> aliases]
    /\ Goto(p, "set_insert_alias")
    /\ UNCHANGED <<products, overrides, aliases, last>>

\* 2) upsert alias
SetInsertAlias(p) ==
    /\ req[p].pc = "set_insert_alias"
    /\ tx' = [tx EXCEPT !.aliases = UpsertAlias(@, req[p].bc, req[p].code)]
    /\ Goto(p, IF req[p].flag THEN "set_update_products" ELSE "commit")
    /\ UNCHANGED <<products, overrides, aliases, last>>

\* optional: UPDATE products SET barcode
SetUpdateProducts(p) ==
    /\ req[p].pc = "set_update_products"
    /\ tx' = [tx EXCEPT !.products = UpdateProductBarcode(@, req[p].code, req[p].bc)]
    /\ Goto(p, "commit")
    /\ UNCHANGED <<products, overrides, aliases, last>>

\* clear_product_barcode_override up to get_conn()
ClearStart(p, product_code) ==
    /\ req[p].pc = "idle"
    /\ \E code \in {Strip(product_code)} :
         IF code = <<>> THEN Refuse("clear", "ProductCodeRequired")
         ELSE /\ Begin(p, "clear", code, <<>>, FALSE, "clear_select_override")
              /\ UNCHANGED last
    /\ UNCHANGED <<products, overrides, aliases, tx>>

\* SELECT barcode FROM barcode_overrides: "get current override barcode"
ClearSelectOverride(p) ==
    /\ req[p].pc = "clear_select_override"
    /\ IF OverridesByCode(overrides, req[p].code) = {}
       THEN Finish(p, "ok", FALSE)
       ELSE /\ req' = [req EXCEPT
                         ![p].pc = "clear_delete_override",
                         ![p].bc = ClearBarcode(CHOOSE r \in
                                       OverridesByCode(overrides, req[p].code) : TRUE)]
            /\ UNCHANGED last
    /\ UNCHANGED <<products, overrides, aliases, tx>>

\* DELETE FROM barcode_overrides: the first write opens the transaction
ClearDeleteOverride(p) ==
    /\ req[p].pc = "clear_delete_override"
    /\ tx.owner = 0
    /\ tx' = [owner |-> p, products |-> products,
              overrides |-> DeleteOverride(overrides, req[p].code),
              aliases |-> aliases]
    /\ Goto(p, IF req[p].bc # <<>> THEN "clear_select_alias" ELSE "commit")
    /\ UNCHANGED <<products, overrides, aliases, last>>

\* SELECT product_code FROM barcode_aliases: "only if it points to this product"
ClearSelectAlias(p) ==
    /\ req[p].pc = "clear_select_alias"
    /\ Goto(p, IF AliasPointsTo(tx.aliases, req[p].bc, req[p].code)
               THEN "clear_delete_alias" ELSE "commit")
    /\ UNCHANGED <<products, overrides, aliases, last, tx>>

\* DELETE FROM barcode_aliases
ClearDeleteAlias(p) ==
    /\ req[p].pc = "clear_delete_alias"
    /\ tx' = [tx EXCEPT !.aliases = DeleteAlias(@, req[p].bc)]
    /\ Goto(p, "commit")
    /\ UNCHANGED <<products, overrides, aliases, last>>

\* conn.commit() and the return
Commit(p) ==
    /\ req[p].pc = "commit"
    /\ products' = tx.products
    /\ overrides' = tx.overrides
    /\ aliases' = tx.aliases
    /\ tx' = NoTx
    /\ Finish(p, "ok", req[p].op = "clear")

\* an exception in a statement (sqlite3.OperationalError such as "database
\* is locked" after the busy timeout): finally conn.close(), nothing committed
Fail(p) ==
    /\ req[p].pc # "idle"
    /\ tx' = IF tx.owner = p THEN NoTx ELSE tx
    /\ Finish(p, "StorageError", FALSE)
    /\ UNCHANGED <<products, overrides, aliases>>

NextConc ==
    \/ \E p \in Procs, c \in ConcCodes, b \in ConcRaws, f \in BOOLEAN : SetStart(p, c, b, f)
    \/ \E p \in Procs : SetSelectProduct(p)
    \/ \E p \in Procs : SetSelectAlias(p)
    \/ \E p \in Procs : SetInsertOverride(p)
    \/ \E p \in Procs : SetInsertAlias(p)
    \/ \E p \in Procs : SetUpdateProducts(p)
    \/ \E p \in Procs, c \in ConcCodes : ClearStart(p, c)
    \/ \E p \in Procs : ClearSelectOverride(p)
    \/ \E p \in Procs : ClearDeleteOverride(p)
    \/ \E p \in Procs : ClearSelectAlias(p)
    \/ \E p \in Procs : ClearDeleteAlias(p)
    \/ \E p \in Procs : Commit(p)
    \/ \E p \in Procs : Fail(p)

SpecConc == InitConc /\ [][NextConc]_vars

(* ----------------------------- an import beside a set_override --------- *)
\* upload_reports is a coroutine that runs the import on the event loop
\* thread; set_product_barcode runs in a worker thread at the same time.
SetProc == 1
ImpProc == 2

\* import_products_two_reports up to the first _upsert_products: records
\* holds the records still to be upserted on the open connection, rest the
\* record lists of the calls of _upsert_products still to come
ImpStart(p, rows_a, rows_b) ==
    /\ req[p].pc = "idle"
    /\ req' = [req EXCEPT ![p] =
                 [op |-> "import", pc |-> "imp_upsert", code |-> <<>>, bc |-> <<>>,
                  flag |-> FALSE, prefer_barcode |-> TRUE,
                  records |-> ToRecords(rows_a, TRUE),
                  rest |-> <<ToRecords(rows_b, FALSE)>>]]
    /\ UNCHANGED <<products, overrides, aliases, last, tx>>

\* one iteration of the loop of _upsert_products: a skipped record writes
\* nothing; the first UPDATE or INSERT opens the transaction.  The SELECT
\* and the write of a record are one step here: no other request of this
\* specification writes a products row.
ImpUpsert(p) ==
    /\ req[p].pc = "imp_upsert"
    /\ req[p].records # <<>>
    /\ IF IsSkipped(Head(req[p].records)) THEN UNCHANGED tx
       ELSE /\ tx.owner \in {0, p}
            /\ tx' = IF tx.owner = p
                     THEN [tx EXCEPT !.products =
                             UpsertRecord(@, Head(req[p].records), req[p].prefer_barcode)]
                     ELSE [owner |-> p,
                           products |-> UpsertRecord(products, Head(req[p].records),
                                                     req[p].prefer_barcode),
                           overrides |-> overrides, aliases |-> aliases]
    /\ req' = [req EXCEPT ![p].records = Tail(@)]
    /\ UNCHANGED <<products, overrides, aliases, last>>

\* conn.commit() of _upsert_products, then the next call of it or the return
ImpCommit(p) ==
    /\ req[p].pc = "imp_upsert"
    /\ req[p].records = <<>>
    /\ IF tx.owner = p
       THEN /\ products' = tx.products
            /\ overrides' = tx.overrides
            /\ aliases' = tx.aliases
            /\ tx' = NoTx
       ELSE UNCHANGED <<products, overrides, aliases, tx>>
    /\ IF req[p].rest # <<>>
       THEN /\ req' = [req EXCEPT ![p].records = Head(req[p].rest),
                                  ![p].rest = Tail(req[p].rest),
                                  ![p].prefer_barcode = FALSE]
            /\ UNCHANGED last
       ELSE Finish(p, "ok", FALSE)

InitMix ==
    /\ products = ConcCatalog
    /\ overrides = {}
    /\ aliases = {}
    /\ last = Last("import", "ok", "", FALSE)
    /\ req = [p \in Procs |-> IdleReq]
    /\ tx = NoTx

NextMix ==
    \/ \E c \in ConcCodes, b \in RawBarcodes : SetStart(SetProc, c, b, FALSE)
    \/ SetSelectProduct(SetProc)
    \/ SetSelectAlias(SetProc)
    \/ SetInsertOverride(SetProc)
    \/ SetInsertAlias(SetProc)
    \/ Commit(SetProc)
    \/ \E a \in SeqsUpTo(RowsA, MaxRows), b \in SeqsUpTo(RowsB, MaxRows) :
          ImpStart(ImpProc, a, b)
    \/ ImpUpsert(ImpProc)
    \/ ImpCommit(ImpProc)
    \/ \E p \in Procs : Fail(p)

SpecMix == InitMix /\ [][NextMix]_vars

(* ----------------------------- the barcode cleaners on raw strings ------ *)
MaxLen == 3         \* longest raw string cleaned
RawChars == {" ", NBSP, "^", "0", "1", "a"}
RawStrings == SeqsUpTo(RawChars, MaxLen)

\* a catalog with an override, as import and set_product_barcode leave it
CleanDb == SetProductBarcode(ConcCatalog, {}, {}, P1, <<"1">>, FALSE).db

\* a raw string arrives: a CSV barcode cell, the barcode of a
\* BarcodeUpdateIn payload, or the q of a search
InitClean ==
    /\ products = CleanDb.products
    /\ overrides = CleanDb.overrides
    /\ aliases = CleanDb.aliases
    /\ last \in {[op |-> "raw", raw |-> r] : r \in RawStrings}
    /\ req = [p \in Procs |-> IdleReq]
    /\ tx = NoTx

\* the three entry points applied to it
Clean ==
    /\ last.op = "raw"
    /\ last' = [op |-> "cleaned", raw |-> last.raw,
                csv |-> CleanBarcodeCsv(last.raw),
                app |-> CleanBarcodeApp(last.raw),
                query |-> QueryCompact(last.raw)]
    /\ UNCHANGED <<products, overrides, aliases, req, tx>>

NextClean == Clean

SpecClean == InitClean /\ [][NextClean]_vars

(* ----------------------------- one upload of two reports --------------- *)
MaxBatch == 2       \* rows per report of the upload
DescLineGroup == <<"L", "i", "n", "e", " ", "G", "r", "o", "u", "p">>
DescHandling ==
    <<"a", " ", "H", "A", "N", "D", "L", "I", "N", "G", " ", "c", "h", "a", "r", "g", "e">>
\* rows of the report with barcodes: two products, a sentinel code, a
\* marker description, a row without product code
BatchRowsA ==
    {CsvRow(P1, DescA, 1, <<>>, <<"1">>),
     CsvRow(P2, DescB, 1, <<>>, <<"^", "1">>),
     CsvRow(S_999998, DescA, 1, <<>>, <<"2">>),
     CsvRow(P2, DescLineGroup, 3, <<>>, <<"1">>),
     CsvRow(<<" ">>, DescA, 1, <<>>, <<"2">>)}
\* rows of the report without barcodes
BatchRowsB ==
    {CsvRow(P1, DescB, 2, <<>>, <<>>),
     CsvRow(S_999999, DescA, 1, <<>>, <<>>),
     CsvRow(P2, DescHandling, 3, <<>>, <<>>),
     CsvRow(<<>>, DescA, 1, <<>>, <<>>)}

\* databases the upload can meet: empty, after an import, after an import
\* and a set_product_barcode
UploadDbs ==
    {[products |-> {}, overrides |-> {}, aliases |-> {}],
     [products |-> ConcCatalog, overrides |-> {}, aliases |-> {}],
     CleanDb}

\* the two files of POST /admin/upload_reports have been received
InitUpload ==
    /\ \E db \in UploadDbs :
          /\ products = db.products
          /\ overrides = db.overrides
          /\ aliases = db.aliases
    /\ last \in {[op |-> "upload", rows_a |-> a, rows_b |-> b] :
                    a \in SeqsUpTo(BatchRowsA, MaxBatch),
                    b \in SeqsUpTo(BatchRowsB, MaxBatch)}
    /\ req = [p \in Procs |-> IdleReq]
    /\ tx = NoTx

\* import_products_two_reports on them; before is the catalog it found
ImportUploaded ==
    /\ last.op = "upload"
    /\ products' = ImportProductsTwoReports(products, last.rows_a, last.rows_b)
    /\ last' = [op |-> "import", status |-> "ok", rows_a |-> last.rows_a,
                rows_b |-> last.rows_b, before |-> products]
    /\ UNCHANGED <<overrides, aliases, req, tx>>

NextUpload == ImportUploaded

SpecUpload == InitUpload /\ [][NextUpload]_vars

(* ----------------------------- stock-take ------------------------------ *)
MaxQty == 2         \* counted quantities are 1..MaxQty

S_UNKNOWN == <<"U", "N", "K", "N", "O", "W", "N">>

\* payload.get(k) or "" : a missing key reads as the empty string
OrEmpty(s) == IF s = NULL THEN <<>> ELSE s

\* x or d on a nullable string
OrElse(x, d) == IF Truthy(x) THEN x ELSE d

\* a row of table stocktake_items; PRIMARY KEY (session_id, product_code).
\* updated_by and updated_at are carried along and never read; they are
\* left out
ItemRow(session_id, product_code, description, barcode, quantity) ==
    [session_id |-> session_id, product_code |-> product_code,
     description |-> description, barcode |-> barcode, quantity |-> quantity]

ItemsByKey(items, session_id, product_code) ==
    {i \in items : i.session_id = session_id /\ i.product_code = product_code}

\* INSERT INTO stocktake_items ... ON CONFLICT(session_id, product_code)
\* DO UPDATE SET description, barcode, quantity = excluded....
UpsertItem(items, row) ==
    (items \ ItemsByKey(items, row.session_id, row.product_code)) \cup {row}

\* DELETE FROM stocktake_items WHERE session_id = ? AND product_code = ?
DeleteItem(items, session_id, product_code) ==
    items \ ItemsByKey(items, session_id, product_code)

\* the tuple _resolve_product returns
Resolved(code, desc, barcode) ==
    [product_code |-> code, description |-> desc, barcode |-> barcode]

\* 1) FROM barcode_aliases a JOIN products p ... WHERE a.barcode = ?
ResolveByAlias(prod, ov, al, barcode) ==
    UNION {LeftJoinOverride(p, ov) :
            p \in {x \in prod : \E a \in al :
                        a.barcode = barcode /\ a.product_code = x.product_code}}

\* 2) and 4) FROM products p ... WHERE p.product_code = ?
ResolveByProductCode(prod, ov, code) ==
    UNION {LeftJoinOverride(p, ov) : p \in ProductsByCode(prod, code)}

\* 3) FROM products p ... WHERE p.barcode = ?
ResolveByCatalogBarcode(prod, ov, barcode) ==
    UNION {LeftJoinOverride(p, ov) : p \in {x \in prod : x.barcode = barcode}}

\* _resolve_product: every tuple it can return (LIMIT 1 without ORDER BY
\* takes any of the matching rows)
ResolveProduct(prod, ov, al, barcode0, product_code0) ==
    LET barcode == SelectSeq(Strip(OrEmpty(barcode0)), IsNotSpace)
        product_code == Strip(OrEmpty(product_code0))
    IN  IF barcode # <<>> /\ ResolveByAlias(prod, ov, al, barcode) # {}
        THEN {Resolved(r.product_code, r.full_description,
                       OrElse(r.effective_barcode, barcode)) :
                 r \in ResolveByAlias(prod, ov, al, barcode)}
        ELSE IF product_code # <<>> /\ ResolveByProductCode(prod, ov, product_code) # {}
        THEN {Resolved(r.product_code, r.full_description,
                       OrElse(r.effective_barcode, NULL)) :
                 r \in ResolveByProductCode(prod, ov, product_code)}
        ELSE IF barcode # <<>> /\ ResolveByCatalogBarcode(prod, ov, barcode) # {}
        THEN {Resolved(r.product_code, r.full_description,
                       OrElse(r.effective_barcode, barcode)) :
                 r \in ResolveByCatalogBarcode(prod, ov, barcode)}
        ELSE IF /\ barcode # <<>> /\ IsDigit(barcode)
                /\ ResolveByProductCode(prod, ov, barcode) # {}
        THEN {Resolved(r.product_code, r.full_description,
                       OrElse(r.effective_barcode, barcode)) :
                 r \in ResolveByProductCode(prod, ov, barcode)}
        ELSE {Resolved(OrElse(product_code, OrElse(barcode, <<>>)), S_UNKNOWN,
                       OrElse(barcode, NULL))}

\* the answer of a stock-take endpoint and the two tables it leaves
StockResult(status, items, sessions) ==
    [status |-> status, items |-> items, sessions |-> sessions]

\* add_or_update_item: every outcome it can have
AddOrUpdateItem(prod, ov, al, items, sessions, session_id0, barcode, product_code, quantity) ==
    LET session_id == Strip(OrEmpty(session_id0))
    IN  IF session_id = <<>>
        THEN {StockResult("SessionRequired", items, sessions)}
        ELSE {IF r.product_code = <<>>
              THEN StockResult("Unresolved", items, sessions)
              ELSE StockResult("ok",
                       UpsertItem(items, ItemRow(session_id, r.product_code,
                                                 r.description, r.barcode, quantity)),
                       sessions \cup {session_id}) :
                 r \in ResolveProduct(prod, ov, al, barcode, product_code)}

\* clear_items
ClearItems(items, sessions, session_id0) ==
    StockResult("ok", {i \in items : i.session_id # Strip(OrEmpty(session_id0))},
                sessions)

\* move_item: SELECT the source row, upsert it into the destination, DELETE
\* the source row, commit
MoveItem(items, sessions, from_session_id0, to_session_id0, product_code0) ==
    LET from_session_id == Strip(OrEmpty(from_session_id0))
        to_session_id == Strip(OrEmpty(to_session_id0))
        product_code == Strip(OrEmpty(product_code0))
        found == ItemsByKey(items, from_session_id, product_code)
    IN  IF from_session_id = <<>> \/ to_session_id = <<>> \/ product_code = <<>>
        THEN StockResult("Required", items, sessions)
        ELSE IF found = {}
        THEN StockResult("ItemNotFound", items, sessions)
        ELSE StockResult("ok",
                 DeleteItem(
                     UpsertItem(items,
                         [(CHOOSE r \in found : TRUE) EXCEPT !.session_id = to_session_id]),
                     from_session_id, product_code),
                 sessions \cup {to_session_id})

\* inputs of the stock-take requests
SessionIds == {<<"a">>, <<"b">>, <<" ">>}
ScanBarcodes == {NULL, <<"1">>, <<"2">>}
ScanCodes == {NULL, P1, P2}
Quantities == 1..MaxQty

\* the database after set_product_barcode gave product 1 the barcode 2 that
\* the catalog holds for product 2
SharedDb == SetProductBarcode(ConcCatalog, {}, {}, P1, <<"2">>, FALSE).db

\* databases the stock-take can meet
StockDbs ==
    {[products |-> ConcCatalog, overrides |-> {}, aliases |-> {}],
     CleanDb, SharedDb}

\* what the stock-take endpoints leave: the outcome of the last request and
\* the committed rows of stocktake_items and stocktake_sessions
Stock(op, r) ==
    [op |-> op, status |-> r.status, stocktake_items |-> r.items,
     stocktake_sessions |-> r.sessions]

\* init_db: the stock-take tables are created empty
InitStock ==
    /\ \E db \in StockDbs :
          /\ products = db.products
          /\ overrides = db.overrides
          /\ aliases = db.aliases
    /\ last = Stock("init", StockResult("", {}, {}))
    /\ req = [p \in Procs |-> IdleReq]
    /\ tx = NoTx

\* POST /stocktake/item
AddItem(session_id, barcode, product_code, quantity) ==
    /\ \E r \in AddOrUpdateItem(products, overrides, aliases, last.stocktake_items,
                                last.stocktake_sessions, session_id, barcode,
                                product_code, quantity) :
          last' = Stock("add", r)
    /\ UNCHANGED <<products, overrides, aliases, req, tx>>

\* DELETE /stocktake/items
ClearSession(session_id) ==
    /\ last' = Stock("clear_items",
                     ClearItems(last.stocktake_items, last.stocktake_sessions,
                                session_id))
    /\ UNCHANGED <<products, overrides, aliases, req, tx>>

\* POST /stocktake/move
Move(from_session_id, to_session_id, product_code) ==
    /\ last' = Stock("move",
                     MoveItem(last.stocktake_items, last.stocktake_sessions,
                              from_session_id, to_session_id, product_code))
    /\ UNCHANGED <<products, overrides, aliases, req, tx>>

NextStock ==
    \/ \E s \in SessionIds, b \in ScanBarcodes, c \in ScanCodes, n \in Quantities :
          AddItem(s, b, c, n)
    \/ \E s \in SessionIds : ClearSession(s)
    \/ \E f \in SessionIds, t \in SessionIds, c \in ScanCodes \ {NULL} : Move(f, t, c)

SpecStock == InitStock /\ [][NextStock]_vars

(* ----------------------------- properties ------------------------------ *)
\* C1: after any sequence of completed set_override, clear_override and
\* import requests, every active override (pc, bc) has the alias (bc, pc).
C1_OverrideHasAlias ==
    \A o \in overrides : AliasRow(o.barcode, o.product_code) \in aliases

\* a clear removed one product's override while another product keeps its own
C1_Witness ==
    /\ last.op = "clear" /\ last.deleted
    /\ overrides # {}

\* C2: no two products hold overrides with the same barcode, and the alias
\* table maps each barcode to exactly one product code.
C2_OneProductPerBarcode ==
    /\ \A o1, o2 \in overrides :
          o1.barcode = o2.barcode => o1.product_code = o2.product_code
    /\ \A a1, a2 \in aliases :
          a1.barcode = a2.barcode => a1.product_code = a2.product_code

\* both products hold an override and a request for a taken barcode was refused
C2_Witness ==
    /\ Cardinality(overrides) = 2
    /\ last.op = "set" /\ last.status = "BarcodeConflict"

\* a set_override request whose cleaned barcode the alias table maps to
\* another product code
ConflictingRequest(c, b) ==
    /\ CleanBarcodeApp(b) # HTTP400
    /\ \E a \in AliasesByBarcode(aliases, CleanBarcodeApp(b)) :
          a.product_code # Strip(c)

RefusedUnchanged(c, b, f) ==
    LET r == SetProductBarcode(products, overrides, aliases, c, b, f)
    IN  /\ r.status = "BarcodeConflict"
        /\ r.db = [products |-> products, overrides |-> overrides,
                   aliases |-> aliases]

\* C3 as stated: set_override(B, bc) fails with BarcodeConflict whenever the
\* alias table maps the normalized bc to a product code other than B, and
\* leaves the three stores unchanged.
C3_ConflictAlways ==
    \A c \in CodeArgs, b \in RawBarcodes, f \in BOOLEAN :
        ConflictingRequest(c, b) => RefusedUnchanged(c, b, f)

\* C3 amended: the same for a product B that exists in the catalog (for an
\* unknown product the request fails with ProductNotFound first).
C3_ConflictForExistingProduct ==
    \A c \in CodeArgs, b \in RawBarcodes, f \in BOOLEAN :
        (ConflictingRequest(c, b) /\ ProductsByCode(products, Strip(c)) # {})
            => RefusedUnchanged(c, b, f)

\* a request was refused with BarcodeConflict
C3_Witness ==
    /\ last.op = "set" /\ last.status = "BarcodeConflict"
    /\ \E c \in CodeArgs, b \in RawBarcodes :
          ConflictingRequest(c, b) /\ ProductsByCode(products, Strip(c)) # {}

\* C4: when two set_override requests for different products and the same
\* barcode interleave, a request that commits never leaves that barcode as
\* the active override of two products.
C4_OneWinner ==
    [][\A p \in Procs :
          (req[p].op = "set" /\ req[p].pc = "commit" /\ req'[p].pc = "idle"
           /\ last'.status = "ok")
          => \A o \in overrides' :
                o.barcode = req[p].bc => o.product_code = req[p].code]_vars

\* C5: the committed tables change only at a commit, and the commit of a
\* set_override publishes its override row and its alias row together; a
\* failure between the two writes leaves nothing behind.
C5_SetIsAtomic ==
    [][(overrides' # overrides \/ aliases' # aliases)
          => \E p \in Procs :
                /\ req[p].pc = "commit" /\ req'[p].pc = "idle"
                /\ req[p].op = "set" =>
                      /\ OverrideRow(req[p].code, req[p].bc) \in overrides'
                      /\ AliasRow(req[p].bc, req[p].code) \in aliases']_vars

\* a request stands between its two writes: its override row is written in
\* its transaction and not visible in the committed table
C5_Witness ==
    \E p \in Procs :
        /\ req[p].pc = "set_insert_alias" /\ tx.owner = p
        /\ OverrideRow(req[p].code, req[p].bc) \in tx.overrides
        /\ OverrideRow(req[p].code, req[p].bc) \notin overrides
        /\ AliasRow(req[p].bc, req[p].code) \notin aliases

\* C6: a step of clear_override(pc) removes no alias row other than the one
\* that maps the override barcode it read to pc itself.
C6_ClearKeepsOtherAliases ==
    [][\A p \in Procs :
          (req[p].op = "clear" /\ req'[p] # req[p])
          => /\ aliases' \subseteq aliases
             /\ \A a \in aliases \ aliases' :
                   a = AliasRow(req[p].bc, req[p].code)]_vars

\* a clear deleted an override whose barcode the alias table maps to the
\* other product, and that alias is still there
C6_Witness ==
    /\ last.op = "clear" /\ last.status = "ok" /\ last.deleted
    /\ aliases # {}
    /\ \A p \in Procs : req[p].pc = "idle"

\* C7: a catalog barcode that is not absent never becomes absent again,
\* whatever is imported afterwards.
C7_BarcodeNeverErased ==
    [][\A r \in products :
          r.barcode # NULL
          => \E r2 \in products' :
                r2.product_code = r.product_code /\ r2.barcode # NULL]_vars

\* after an import, a product that got the price of the report without
\* barcodes still has a catalog barcode
C7_Witness ==
    /\ last.op = "import"
    /\ \E r \in products : r.retail_price = 2 /\ r.barcode # NULL

\* resolve answers the smart query q with one entry for product code pc
\* carrying barcode bc
ResolveGives(prod, ov, al, q, pc, bc) ==
    \A n \in 1..MaxLimit :
        \A res \in SearchProductsInternal(prod, ov, al, q, M_smart, n) :
            /\ res.status = "ok"
            /\ \E i \in 1..Len(res.products) :
                  /\ res.products[i].product_code = pc
                  /\ res.products[i].barcode = bc

\* C8: after an import, resolve still returns the override barcode as the
\* effective barcode of every product that has an override.
C8_OverrideSurvivesImport ==
    [][last'.op = "import"
          => \A o \in overrides' :
                ResolveGives(products', overrides', aliases', o.barcode,
                             o.product_code, o.barcode)]_vars

\* C9: an import leaves the override table and the alias table as they were.
C9_ImportFrame ==
    [][last'.op = "import" => overrides' = overrides /\ aliases' = aliases]_vars

\* after an import, a product with an override has a different catalog barcode
C9_Witness ==
    /\ last.op = "import"
    /\ \E o \in overrides, r \in products :
          /\ r.product_code = o.product_code
          /\ r.barcode # NULL /\ r.barcode # o.barcode
          /\ AliasRow(o.barcode, o.product_code) \in aliases

\* C10: when an alias maps the numeric query to P1 and another product P2
\* has the query as its catalog barcode, smart resolve returns P1 and not P2.
C10_AliasWins ==
    \A q \in Queries : \A a \in aliases : \A p2 \in products :
        (/\ IsDigit(q) /\ a.barcode = q
         /\ ProductsByCode(products, a.product_code) # {}
         /\ p2.product_code # a.product_code /\ p2.barcode = q)
        => \A n \in 1..MaxLimit :
              \A res \in SearchProductsInternal(products, overrides, aliases,
                                                 q, M_smart, n) :
                  /\ res.status = "ok"
                  /\ Len(res.products) = 1
                  /\ res.products[1].product_code = a.product_code

\* the barcode a caller should see for p: the override barcode if the product
\* has an override, its catalog barcode otherwise
EffectiveBarcode(p, ov) ==
    IF OverridesByCode(ov, p.product_code) = {} THEN p.barcode
    ELSE (CHOOSE o \in OverridesByCode(ov, p.product_code) : TRUE).barcode

\* the products of a set of selected rows
CodesOf(rows) == {r.product_code : r \in rows}

\* the chain C11 describes: alias, override, catalog barcode, product code,
\* each exact; substring of the effective barcode only when none of them hits
ChainCodes(prod, ov, al, q) ==
    IF SelAlias(prod, ov, al, q) # {} THEN CodesOf(SelAlias(prod, ov, al, q))
    ELSE IF SelOverride(prod, ov, q) # {} THEN CodesOf(SelOverride(prod, ov, q))
    ELSE IF SelCatalogBarcode(prod, ov, q) # {}
    THEN CodesOf(SelCatalogBarcode(prod, ov, q))
    ELSE IF SelProductCode(prod, ov, q) # {}
    THEN CodesOf(SelProductCode(prod, ov, q))
    ELSE {p.product_code : p \in {x \in prod :
              /\ EffectiveBarcode(x, ov) # NULL
              /\ Contains(EffectiveBarcode(x, ov), q)}}

\* C11: in barcode mode the rows resolve selects are those of the chain
\* alias, override, catalog barcode, product code (exact matches), and a
\* substring match on the effective barcode is used only when no exact
\* match exists.
C11_BarcodeModeChain ==
    \A q \in Queries :
        CodesOf(SearchSelect(products, overrides, aliases, q, M_barcode).rows)
            = ChainCodes(products, overrides, aliases, SelectSeq(Strip(q), IsNotSpace))

\* C12: every row resolve finds, in every mode, is returned carrying the
\* override barcode of its product if it has one, else its catalog barcode.
C12_RowsCarryEffectiveBarcode ==
    \A q \in Queries, m \in Modes, n \in 1..MaxLimit :
        \A f \in FetchAll(SearchSelect(products, overrides, aliases, q, m).rows,
                          SearchSelect(products, overrides, aliases, q, m).ordered, n) :
            /\ RowsToProducts(f).status = "ok"
            /\ Len(RowsToProducts(f).products) = Len(f)
            /\ \A i \in 1..Len(f) : \A p \in ProductsByCode(products, f[i].product_code) :
                  RowsToProducts(f).products[i].barcode = EffectiveBarcode(p, overrides)

\* C13: the CSV cleaner, the set_override cleaner and the treatment of a
\* search query give the same barcode for every raw string, so that a query
\* r selects what the query normalize(r) selects.
C13_SameNormalization ==
    (last.op = "cleaned" /\ last.csv # NULL)
        => /\ last.app = last.csv
           /\ last.query = last.csv
           /\ \A m \in {M_smart, M_barcode} :
                 SearchSelect(products, overrides, aliases, last.raw, m).rows
                   = SearchSelect(products, overrides, aliases, last.csv, m).rows

\* C14: both cleaners return the digits of raw, in order and unchanged, and
\* absent (None / HTTP 400) when there is no digit or only zeros.
C14_Normalize ==
    last.op = "cleaned"
        => IF \A i \in 1..Len(last.raw) : last.raw[i] \in Digits => last.raw[i] = "0"
           THEN last.csv = NULL /\ last.app = HTTP400
           ELSE /\ last.csv = SelectSeq(last.raw, IsDigitChar)
                /\ last.app = SelectSeq(last.raw, IsDigitChar)

\* a raw string with the lead-in marker and a leading zero was cleaned
C14_Witness ==
    /\ last.op = "cleaned"
    /\ last.raw = <<"^", "0", "1">>
    /\ last.csv = <<"0", "1">>

\* C15: when set_override(X, b) with the flag off commits while an import
\* runs beside it, the override and alias tables are those the set_override
\* produces on its own, and resolve then gives b as the barcode of X.
C15_SetBesideImport ==
    [][(/\ req[SetProc].op = "set" /\ req[SetProc].pc = "commit"
        /\ req'[SetProc].pc = "idle" /\ last'.status = "ok")
          => /\ overrides' = UpsertOverride(overrides, req[SetProc].code, req[SetProc].bc)
             /\ aliases' = UpsertAlias(aliases, req[SetProc].bc, req[SetProc].code)
             /\ ResolveGives(products', overrides', aliases', req[SetProc].bc,
                             req[SetProc].code, req[SetProc].bc)]_vars

\* C16: a record of the report with barcodes that carries a barcode b, for a
\* product that exists and has no override, leaves the product with catalog
\* barcode b whatever was stored before (the last such record of the report
\* decides).
C16_PreferredBarcodeReplaces ==
    last.op = "import" =>
        \A i \in 1..Len(last.rows_a) :
            (/\ ~IsSkipped(ToRecord(last.rows_a[i], TRUE))
             /\ ToRecord(last.rows_a[i], TRUE).barcode # NULL
             /\ ProductsByCode(last.before, ToRecord(last.rows_a[i], TRUE).product_code) # {}
             /\ OverridesByCode(overrides, ToRecord(last.rows_a[i], TRUE).product_code) = {}
             /\ \A j \in (i + 1)..Len(last.rows_a) :
                   \/ ToRecord(last.rows_a[j], TRUE).product_code
                        # ToRecord(last.rows_a[i], TRUE).product_code
                   \/ IsSkipped(ToRecord(last.rows_a[j], TRUE))
                   \/ ToRecord(last.rows_a[j], TRUE).barcode = NULL)
            => \E r \in products :
                  /\ r.product_code = ToRecord(last.rows_a[i], TRUE).product_code
                  /\ r.barcode = ToRecord(last.rows_a[i], TRUE).barcode

\* a product without override had catalog barcode 2 and has 1 after the import
C16_Witness ==
    /\ last.op = "import"
    /\ \E r \in last.before, r2 \in products :
          /\ r.product_code = r2.product_code
          /\ r.barcode = <<"2">> /\ r2.barcode = <<"1">>
          /\ OverridesByCode(overrides, r.product_code) = {}

\* the only record for product code c in a report, if there is exactly one
OnlyRecord(rows, has_barcode, c) ==
    {ToRecord(rows[i], has_barcode) : i \in {k \in 1..Len(rows) :
        /\ ToRecord(rows[k], has_barcode).product_code = c
        /\ \A j \in 1..Len(rows) :
              ToRecord(rows[j], has_barcode).product_code = c => j = k}}

\* C17: a product code with barcode b in the report with barcodes and with
\* another price in the report without them ends with the price and the
\* description of the latter and barcode b, and resolve(b, smart) returns
\* exactly that product, when nothing else uses b.
C17_TwoReportMerge ==
    last.op = "import" =>
        \A c \in {P1, P2} :
            \A ra \in OnlyRecord(last.rows_a, TRUE, c) :
                \A rb \in OnlyRecord(last.rows_b, FALSE, c) :
                    (/\ ~IsSkipped(ra) /\ ~IsSkipped(rb)
                     /\ ra.barcode # NULL
                     /\ ra.retail_price # rb.retail_price
                     /\ AliasesByBarcode(aliases, ra.barcode) = {}
                     /\ \A o \in overrides :
                           o.barcode # ra.barcode /\ o.product_code # c
                     /\ \A r \in products : r.barcode = ra.barcode => r.product_code = c)
                    => /\ ProductRow(c, rb.full_description, rb.retail_price,
                                     rb.manufacturers_product_code, ra.barcode)
                            \in products
                       /\ \A n \in 1..MaxLimit :
                            \A res \in SearchProductsInternal(products, overrides, aliases,
                                                               ra.barcode, M_smart, n) :
                                /\ res.status = "ok"
                                /\ Len(res.products) = 1
                                /\ res.products[1].product_code = c
                                /\ res.products[1].retail_price = rb.retail_price
                                /\ res.products[1].barcode = ra.barcode

\* a row that C18 says is not a product: sentinel code or marker description
IsProductRow(r) ==
    /\ Norm(r.product_code) \notin {S_999998, S_999999}
    /\ ~Contains(Lower(Norm(r.full_description)), S_LineGroup)
    /\ ~Contains(Lower(Norm(r.full_description)), S_HandlingCharge)

\* C18: records with a sentinel code or a marker description (in any case)
\* neither insert nor update a catalog row, in either report: the catalog is
\* the one the import gives without them.
C18_SentinelNeverStored ==
    last.op = "import" =>
        /\ products = ImportProductsTwoReports(last.before,
                          SelectSeq(last.rows_a, IsProductRow),
                          SelectSeq(last.rows_b, IsProductRow))
        /\ \A r \in products \ last.before :
              /\ r.product_code \notin {S_999998, S_999999}
              /\ ~Contains(Lower(r.full_description), S_LineGroup)
              /\ ~Contains(Lower(r.full_description), S_HandlingCharge)

\* the upload held a "Line Group" row for an existing product, whose row is
\* as before while the import wrote other rows
C18_Witness ==
    /\ last.op = "import"
    /\ \E i \in 1..Len(last.rows_a) :
          /\ ~IsProductRow(last.rows_a[i])
          /\ \E r \in last.before \cap products :
                r.product_code = last.rows_a[i].product_code
    /\ products # last.before

\* the row has a product code
HasProductCode(r) == Norm(r.product_code) # <<>>

\* C19: a record without product code raises nothing and is skipped; the
\* other records of the upload are upserted and committed as without it.
C19_NoCodeSkipped ==
    last.op = "import" =>
        /\ last.status = "ok"
        /\ products = ImportProductsTwoReports(last.before,
                          SelectSeq(last.rows_a, HasProductCode),
                          SelectSeq(last.rows_b, HasProductCode))

\* a report began with a row without product code, and the product of the
\* row after it was inserted into the empty catalog
C19_Witness ==
    /\ last.op = "import"
    /\ Len(last.rows_a) = 2
    /\ ~HasProductCode(last.rows_a[1]) /\ HasProductCode(last.rows_a[2])
    /\ last.before = {}
    /\ \E r \in products : r.product_code = Norm(last.rows_a[2].product_code)

\* C20: clear_override of a product without override succeeds, reports that
\* nothing was deleted and changes no store; a second call right after it
\* gives the same answer and the same state.
C20_ClearWithoutOverride ==
    \A c \in CodeArgs :
        OverridesByCode(overrides, Strip(c)) = {}
        => /\ ClearProductBarcodeOverride(overrides, aliases, c)
                = [status |-> "ok", deleted |-> FALSE,
                   db |-> [overrides |-> overrides, aliases |-> aliases]]
           /\ ClearProductBarcodeOverride(
                  ClearProductBarcodeOverride(overrides, aliases, c).db.overrides,
                  ClearProductBarcodeOverride(overrides, aliases, c).db.aliases, c)
                = ClearProductBarcodeOverride(overrides, aliases, c)

\* a clear found no override and deleted nothing, while an alias left from an
\* earlier override of a product without override is still there
C20_Witness ==
    /\ last.op = "clear" /\ last.status = "ok" /\ ~last.deleted
    /\ \E a \in aliases : OverridesByCode(overrides, a.product_code) = {}

\* raw barcodes that clean to nothing usable
InvalidRaws == {r \in RawBarcodes \cup {<<>>, <<"a">>, <<"^", " ">>, <<"0", "0">>} :
                   CleanBarcodeApp(r) = HTTP400}

\* raw barcodes that clean to a barcode
ValidRaws == {r \in RawBarcodes \cup {<<"2">>, <<" ", "1">>} :
                 CleanBarcodeApp(r) # HTTP400}

\* C21: set_override(A, bc) for a product A that already holds the override bc
\* and the alias bc -> A succeeds and leaves the Override Store and the Alias
\* Index with the same (product, barcode) pairs.
C21_SetAgainKeepsPairs ==
    \A c \in CodeArgs : \A b \in ValidRaws : \A f \in BOOLEAN :
        (/\ OverrideRow(Strip(c), CleanBarcodeApp(b)) \in overrides
         /\ AliasRow(CleanBarcodeApp(b), Strip(c)) \in aliases)
        => /\ SetProductBarcode(products, overrides, aliases, c, b, f).status = "ok"
           /\ SetProductBarcode(products, overrides, aliases, c, b, f).db.overrides
                = overrides
           /\ SetProductBarcode(products, overrides, aliases, c, b, f).db.aliases
                = aliases

\* a set succeeded and the product holds an override whose alias points to it
C21_Witness ==
    /\ last.op = "set" /\ last.status = "ok"
    /\ \E o \in overrides : AliasRow(o.barcode, o.product_code) \in aliases

\* C22: set_override with a raw barcode that cleans to nothing usable fails
\* with InvalidBarcode and leaves the three stores unchanged, whether the
\* product code is in the catalog or not.
C22_InvalidBarcodeFirst ==
    \A c \in CodeArgs : \A b \in InvalidRaws : \A f \in BOOLEAN :
        SetProductBarcode(products, overrides, aliases, c, b, f)
          = [status |-> "InvalidBarcode",
             db |-> [products |-> products, overrides |-> overrides,
                     aliases |-> aliases]]

\* a set was refused for its barcode while the catalog holds a product and
\* lacks another one
C22_Witness ==
    /\ last.op = "set" /\ last.status = "InvalidBarcode"
    /\ \E c \in CodeArgs : ProductsByCode(products, Strip(c)) # {}
    /\ \E c \in CodeArgs : ProductsByCode(products, Strip(c)) = {}

\* the answer of set_override for a product code that is not in the catalog
NotFoundUnchanged(c, b, f) ==
    SetProductBarcode(products, overrides, aliases, c, b, f)
      = [status |-> "ProductNotFound",
         db |-> [products |-> products, overrides |-> overrides,
                 aliases |-> aliases]]

\* C23 as stated: set_override for a product code that is not in the catalog
\* fails with ProductNotFound and creates no override or alias row, whatever
\* the barcode.
C23_NotFoundAlways ==
    \A c \in CodeArgs : \A b \in ValidRaws \cup InvalidRaws : \A f \in BOOLEAN :
        ProductsByCode(products, Strip(c)) = {} => NotFoundUnchanged(c, b, f)

\* C23 amended: set_override with a barcode that cleans to a usable barcode,
\* for a product code that is not in the catalog, fails with ProductNotFound
\* and creates no override or alias row.
C23_NotFoundForValidBarcode ==
    \A c \in CodeArgs : \A b \in ValidRaws : \A f \in BOOLEAN :
        ProductsByCode(products, Strip(c)) = {} => NotFoundUnchanged(c, b, f)

\* a set was refused for its product code while other products are in the
\* catalog
C23_Witness ==
    /\ last.op = "set" /\ last.status = "ProductNotFound"
    /\ products # {}
    /\ \E c \in CodeArgs : ProductsByCode(products, Strip(c)) = {}

\* C24: a successful set_override without the flag leaves the catalog as it
\* was, with the flag it changes nothing more than the catalog barcode of the
\* product, and in both cases resolve of the barcode reports it as the
\* effective barcode of the product.
C24_FlagOnlyAddsCatalogBarcode ==
    \A c \in CodeArgs : \A b \in ValidRaws :
        SetProductBarcode(products, overrides, aliases, c, b, FALSE).status = "ok"
        => /\ SetProductBarcode(products, overrides, aliases, c, b, FALSE).db.products
                = products
           /\ SetProductBarcode(products, overrides, aliases, c, b, TRUE).db
                = [SetProductBarcode(products, overrides, aliases, c, b, FALSE).db
                     EXCEPT !.products =
                        UpdateProductBarcode(products, Strip(c), CleanBarcodeApp(b))]
           /\ \A f \in BOOLEAN :
                 ResolveGives(
                     SetProductBarcode(products, overrides, aliases, c, b, f).db.products,
                     SetProductBarcode(products, overrides, aliases, c, b, f).db.overrides,
                     SetProductBarcode(products, overrides, aliases, c, b, f).db.aliases,
                     CleanBarcodeApp(b), Strip(c), CleanBarcodeApp(b))

\* the queries of C25: not a number, or a number no exact step matches
NoStepMatches(prod, ov, al, q) ==
    \/ ~IsDigit(QueryCompact(q))
    \/ /\ SelAlias(prod, ov, al, QueryCompact(q)) = {}
       /\ SelOverride(prod, ov, QueryCompact(q)) = {}
       /\ SelCatalogBarcode(prod, ov, QueryCompact(q)) = {}
       /\ SelProductCode(prod, ov, QueryCompact(q)) = {}

\* the products whose description contains the query, whatever the case
NameMatches(prod, q) ==
    {p \in prod : Contains(Lower(p.full_description), Lower(Strip(q)))}

\* C25: in smart mode a query that is not a number, or a number that no
\* exact step matches, returns the products whose description contains the
\* query (case-insensitive), in ascending order of description, at most
\* limit of them.
C25_NameFallback ==
    \A q \in Queries \cup {<<"B">>}, n \in 1..MaxLimit :
        NoStepMatches(products, overrides, aliases, q)
        => \A res \in SearchProductsInternal(products, overrides, aliases, q, M_smart, n) :
              /\ res.status = "ok"
              /\ Len(res.products) = Min(n, Cardinality(NameMatches(products, q)))
              /\ \A i \in 1..Len(res.products) :
                    \E p \in NameMatches(products, q) :
                        /\ res.products[i].product_code = p.product_code
                        /\ \A j \in 1..Len(res.products) :
                              i < j => StrLeq(p.full_description,
                                              res.products[j].full_description)

\* a barcode as the stores may hold it: digits, one of them not zero
GoodBarcode(b) == b # NULL /\ b # <<>> /\ IsDigit(b) /\ ~AllZero(b)

\* C26: every barcode held by the Catalog Store, the Override Store and the
\* Alias Index is absent (null) or a string of digits with a digit that is
\* not zero; an empty or all-zero barcode is never stored.
C26_StoredBarcodesClean ==
    /\ \A p \in products : p.barcode = NULL \/ GoodBarcode(p.barcode)
    /\ \A o \in overrides : GoodBarcode(o.barcode)
    /\ \A a \in aliases : GoodBarcode(a.barcode)

\* after an import the catalog holds a product without barcode and one with a
\* barcode, and the Override Store and the Alias Index hold barcodes
C26_Witness ==
    /\ last.op = "import"
    /\ \E p \in products : p.barcode = NULL
    /\ \E p \in products : p.barcode # NULL
    /\ overrides # {} /\ aliases # {}

\* C27: every alias (bc, pc) of the Alias Index belongs to the override
\* (pc, bc) the Override Store holds now; once an override was replaced by
\* another barcode or cleared, no alias of its former barcode is left.
C27_NoStaleAlias ==
    \A a \in aliases : OverrideRow(a.product_code, a.barcode) \in overrides

\* C28: set_override(B, bc) for a product B of the catalog and a usable
\* barcode is refused with BarcodeConflict only when another product holds an
\* override with bc now; a barcode no override of another product holds can
\* be assigned.
C28_ConflictOnlyWithActiveOverride ==
    \A c \in CodeArgs : \A b \in ValidRaws : \A f \in BOOLEAN :
        ProductsByCode(products, Strip(c)) # {}
        => (SetProductBarcode(products, overrides, aliases, c, b, f).status
              = "BarcodeConflict"
            <=> \E o \in overrides : /\ o.barcode = CleanBarcodeApp(b)
                                     /\ o.product_code # Strip(c))

\* the product codes the documented order of _resolve_product allows:
\* alias of the barcode, override with the barcode, catalog barcode, product
\* code, numeric barcode read as product code; the first step that matches
DocumentedCodes(prod, ov, al, barcode0, product_code0) ==
    LET barcode == SelectSeq(Strip(OrEmpty(barcode0)), IsNotSpace)
        product_code == Strip(OrEmpty(product_code0))
        byOverride == {p \in prod : \E o \in ov :
                          o.barcode = barcode /\ o.product_code = p.product_code}
    IN  IF barcode # <<>> /\ ResolveByAlias(prod, ov, al, barcode) # {}
        THEN CodesOf(ResolveByAlias(prod, ov, al, barcode))
        ELSE IF barcode # <<>> /\ byOverride # {}
        THEN CodesOf(byOverride)
        ELSE IF barcode # <<>> /\ ResolveByCatalogBarcode(prod, ov, barcode) # {}
        THEN CodesOf(ResolveByCatalogBarcode(prod, ov, barcode))
        ELSE IF product_code # <<>> /\ ProductsByCode(prod, product_code) # {}
        THEN {product_code}
        ELSE IF barcode # <<>> /\ IsDigit(barcode) /\ ProductsByCode(prod, barcode) # {}
        THEN {barcode}
        ELSE {OrElse(product_code, OrElse(barcode, <<>>))}

\* C29: the stock-take _resolve_product resolves in the documented order
\* alias of the barcode, override, catalog barcode, product code, numeric
\* barcode read as product code; the first step that matches gives the
\* product, also when the request carries a barcode and a product code.
C29_DocumentedPriority ==
    \A b \in ScanBarcodes, c \in ScanCodes :
        \A r \in ResolveProduct(products, overrides, aliases, b, c) :
            r.product_code \in DocumentedCodes(products, overrides, aliases, b, c)

\* C30: a successful move_item leaves in the destination session an item of
\* the product with the quantity it had in the source session, whatever the
\* two session ids are.
C30_MoveKeepsItem ==
    \A f \in SessionIds, t \in SessionIds, c \in ScanCodes \ {NULL} :
        MoveItem(last.stocktake_items, last.stocktake_sessions, f, t, c).status = "ok"
        => \A src \in ItemsByKey(last.stocktake_items, Strip(f), Strip(c)) :
              \E dst \in ItemsByKey(
                            MoveItem(last.stocktake_items, last.stocktake_sessions,
                                     f, t, c).items,
                            Strip(t), Strip(c)) :
                  dst.quantity = src.quantity

====
